---- MODULE Spec2Model ----
(***************************************************************************)
(* Model of the text-to-ADF converter of src/lib/jira-formatter.ts:        *)
(* JiraFormatter.textToADF, parseTextToADFContent (the block pass) and     *)
(* parseInlineFormatting (the inline scanner).                             *)
(*                                                                         *)
(* A JavaScript string is modelled as a sequence of one-character strings, *)
(* indices are 0-based as in the source (At, Substring, IndexOf).          *)
(* The backtick character is the atom Backtick (the parser of TLA+ accepts *)
(* no backtick in a string literal).  An ADF text node without a marks    *)
(* field is modelled with marks = <<>>.                                    *)
(***************************************************************************)
EXTENDS Integers, Sequences, FiniteSets, TLC

VARIABLES text, lines, i, content, currentParagraph, inCodeBlock,
          codeBlockContent, codeBlockLanguage, pc, doc, scan, history,
          cli, wiz, imain, srv

blockVars == <<text, lines, i, content, currentParagraph, inCodeBlock, codeBlockContent, codeBlockLanguage, pc, doc, history, cli, wiz, imain, srv>>

converterVars == <<text, lines, i, content, currentParagraph, inCodeBlock, codeBlockContent, codeBlockLanguage, pc, doc, scan, history>>

vars == <<text, lines, i, content, currentParagraph, inCodeBlock, codeBlockContent, codeBlockLanguage, pc, doc, scan, history, cli, wiz, imain, srv>>

(***************************************************************************)
(* Bounds of the model.                                                    *)
(***************************************************************************)
MaxLen == 5

MaxLines == 4

MaxExtraLines == 2

MaxCalls == 3

MaxSubtasks == 2

MaxGenerations == 2

(***************************************************************************)
(* JavaScript string primitives.                                           *)
(***************************************************************************)
Undefined == "undefined"

NL == "\n"

Backtick == "backtick"

At(s, k) == IF k >= 0 /\ k < Len(s) THEN s[k + 1] ELSE Undefined

Clamp(s, k) == IF k < 0 THEN 0 ELSE IF k > Len(s) THEN Len(s) ELSE k

Substring(s, a, b) ==
  LET ca == Clamp(s, a)
      cb == Clamp(s, b)
      lo == IF ca <= cb THEN ca ELSE cb
      hi == IF ca <= cb THEN cb ELSE ca
  IN  SubSeq(s, lo + 1, hi)

SubstringFrom(s, a) == Substring(s, a, Len(s))

StartsWithAt(s, p, k) == k >= 0 /\ k + Len(p) <= Len(s) /\ SubSeq(s, k + 1, k + Len(p)) = p

IndexOf(s, p, from) ==
  LET hits == {k \in Clamp(s, from)..Len(s) : StartsWithAt(s, p, k)}
  IN  IF hits = {} THEN -1 ELSE CHOOSE k \in hits : \A m \in hits : k <= m

StartsWith(s, p) == StartsWithAt(s, p, 0)

Whitespace == {" ", "\t", NL}

IsSpace(c) == c \in Whitespace

Digits == {"0", "1", "2", "3", "4", "5", "6", "7", "8", "9"}

RECURSIVE LeadingIn(_, _)
LeadingIn(s, set) == IF s # <<>> /\ Head(s) \in set THEN 1 + LeadingIn(Tail(s), set) ELSE 0

RECURSIVE TrailingIn(_, _)
TrailingIn(s, set) == IF s # <<>> /\ s[Len(s)] \in set THEN 1 + TrailingIn(SubSeq(s, 1, Len(s) - 1), set) ELSE 0

TrimStart(s) == SubstringFrom(s, LeadingIn(s, Whitespace))

TrimEnd(s) == Substring(s, 0, Len(s) - TrailingIn(s, Whitespace))

Trim(s) == TrimEnd(TrimStart(s))

RECURSIVE Split(_)
Split(s) ==
  LET k == IndexOf(s, <<NL>>, 0)
  IN  IF k = -1 THEN <<s>> ELSE <<Substring(s, 0, k)>> \o Split(SubstringFrom(s, k + 1))

RECURSIVE Join(_)
Join(ls) ==
  IF ls = <<>> THEN <<>>
  ELSE IF Len(ls) = 1 THEN ls[1]
  ELSE ls[1] \o <<NL>> \o Join(Tail(ls))

(***************************************************************************)
(* ADF nodes.                                                              *)
(***************************************************************************)
TextNode(t) == [type |-> "text", text |-> t, marks |-> <<>>]

MarkedNode(t, m) == [type |-> "text", text |-> t, marks |-> <<m>>]

(***************************************************************************)
(* parseInlineFormatting: the scan state is the record                     *)
(* [pc, text, i, currentText, content, result].                            *)
(***************************************************************************)
ScanStart(t) == [pc |-> "loop", text |-> t, i |-> 0, currentText |-> <<>>, content |-> <<>>, result |-> <<>>]

ScanIdle == [pc |-> "idle", text |-> <<>>, i |-> 0, currentText |-> <<>>, content |-> <<>>, result |-> <<>>]

flushText(s) ==
  IF s.currentText # <<>>
  THEN [s EXCEPT !.content = Append(@, TextNode(s.currentText)), !.currentText = <<>>]
  ELSE s

AtCode(s) == At(s.text, s.i) = Backtick /\ At(s.text, s.i + 1) # Backtick

CodeEnd(s) ==
  LET codeEnd == IndexOf(s.text, <<Backtick>>, s.i + 1)
  IN  IF codeEnd = -1 THEN Len(s.text) ELSE codeEnd

CodeStep_Mut(s) ==
  LET f == flushText(s)
  IN  [f EXCEPT !.content = Append(@, MarkedNode(Substring(s.text, s.i + 1, CodeEnd(s)), "code")),
                !.i = s.i + 1]

CodeStep(s) ==
  LET f == flushText(s)
  IN  [f EXCEPT !.content = Append(@, MarkedNode(Substring(s.text, s.i + 1, CodeEnd(s)), "code")),
                !.i = CodeEnd(s) + 1]

AtBold(s) == Substring(s.text, s.i, s.i + 2) = <<"*", "*">>

BoldEnd(s) == IndexOf(s.text, <<"*", "*">>, s.i + 2)

BoldStep_Mut(s) ==
  LET f == flushText(s)
  IN  [f EXCEPT !.content = Append(@, MarkedNode(Substring(s.text, s.i + 2, BoldEnd(s)), "strong")),
                !.i = BoldEnd(s) + 1]

BoldStep(s) ==
  LET f == flushText(s)
  IN  [f EXCEPT !.content = Append(@, MarkedNode(Substring(s.text, s.i + 2, BoldEnd(s)), "strong")),
                !.i = BoldEnd(s) + 2]

IsItalicDelimiter(c) == c = "*"

AtItalic(s) == IsItalicDelimiter(At(s.text, s.i)) /\ At(s.text, s.i + 1) # "*"

ItalicEnd(s) == IndexOf(s.text, <<"*">>, s.i + 1)

ItalicStep(s) ==
  LET f == flushText(s)
  IN  [f EXCEPT !.content = Append(@, MarkedNode(Substring(s.text, s.i + 1, ItalicEnd(s)), "em")),
                !.i = ItalicEnd(s) + 1]

CharStep(s) ==
  LET s1 == IF AtBold(s) THEN flushText(s) ELSE s
      s2 == IF AtItalic(s) THEN flushText(s1) ELSE s1
  IN  [s2 EXCEPT !.currentText = Append(@, At(s.text, s.i)), !.i = @ + 1]

TakesCode(s) == AtCode(s)

TakesBold(s) == ~TakesCode(s) /\ AtBold(s) /\ BoldEnd(s) # -1

TakesItalic(s) == ~TakesCode(s) /\ ~TakesBold(s) /\ AtItalic(s) /\ ItalicEnd(s) # -1

TakesChar(s) == ~TakesCode(s) /\ ~TakesBold(s) /\ ~TakesItalic(s)

InlineResult_Mut(s) == flushText(s).content

InlineResult(s) ==
  LET f == flushText(s)
  IN  IF Len(f.content) > 0 THEN f.content ELSE <<TextNode(s.text)>>

ScanReturn(s) ==
  LET f == flushText(s)
  IN  [f EXCEPT !.pc = "done", !.result = InlineResult(s)]

ScanStep(s) ==
  IF TakesCode(s) THEN CodeStep(s)
  ELSE IF TakesBold(s) THEN BoldStep(s)
  ELSE IF TakesItalic(s) THEN ItalicStep(s)
  ELSE CharStep(s)

RECURSIVE ScanRun(_)
ScanRun(s) == IF s.i < Len(s.text) THEN ScanRun(ScanStep(s)) ELSE ScanReturn(s)

parseInlineFormatting(t) == ScanRun(ScanStart(t)).result

(***************************************************************************)
(* parseTextToADFContent: the block pass.                                  *)
(***************************************************************************)
MaxHeadingLevel == 6

Fence == <<Backtick, Backtick, Backtick>>

DefaultLanguage == <<"t", "e", "x", "t">>

Paragraph(runs) == [type |-> "paragraph", content |-> runs]

Heading_Mut(level, headerText) == [type |-> "heading", attrs |-> [level |-> level], content |-> parseInlineFormatting(headerText)]

Heading(level, headerText) == [type |-> "heading", attrs |-> [level |-> level], content |-> <<TextNode(headerText)>>]

LanguageAttr(codeLanguage) == IF codeLanguage # <<>> THEN codeLanguage ELSE DefaultLanguage

CodeBlock(codeLanguage, codeLines) == [type |-> "codeBlock", attrs |-> [language |-> LanguageAttr(codeLanguage)], content |-> <<TextNode(Join(codeLines))>>]

ListItem(itemText) == [type |-> "listItem", content |-> <<Paragraph(parseInlineFormatting(itemText))>>]

ListNode(listType, listItems) == [type |-> listType, content |-> listItems]

EmptyParagraph == [type |-> "paragraph", content |-> <<TextNode(<<>>)>>]

NoDoc == [type |-> "none", version |-> 0, content |-> <<>>]

flushParagraph_Mut(c, p) ==
  IF Len(p) > 0
  THEN LET paragraphText == Trim(Join(p))
       IN  IF paragraphText # <<>> THEN <<Paragraph(parseInlineFormatting(paragraphText))>> \o c ELSE c
  ELSE c

flushParagraph(c, p) ==
  IF Len(p) > 0
  THEN LET paragraphText == Trim(Join(p))
       IN  IF paragraphText # <<>> THEN Append(c, Paragraph(parseInlineFormatting(paragraphText))) ELSE c
  ELSE c

flushCodeBlock_Mut(c, codeLines, codeLanguage) == c

flushCodeBlock(c, codeLines, codeLanguage) ==
  IF Len(codeLines) > 0 THEN Append(c, CodeBlock(codeLanguage, codeLines)) ELSE c

FlushedLanguage(codeLines, codeLanguage) == IF Len(codeLines) > 0 THEN <<>> ELSE codeLanguage

IsSkipped(line) == line = <<>>

IsFence(trimmedLine) == StartsWith(trimmedLine, Fence)

IsHeading(trimmedLine) == StartsWith(trimmedLine, <<"#">>)

HeadingLevel_Mut(trimmedLine) == LeadingIn(trimmedLine, {"#"})

HeadingLevel(trimmedLine) ==
  LET hashes == LeadingIn(trimmedLine, {"#"})
  IN  IF hashes < MaxHeadingLevel THEN hashes ELSE MaxHeadingLevel

HeaderText(trimmedLine) == TrimStart(SubstringFrom(trimmedLine, LeadingIn(trimmedLine, {"#"})))

BulletMatch(trimmedLine) == At(trimmedLine, 0) \in {"-", "*"} /\ IsSpace(At(trimmedLine, 1))

BulletText(trimmedLine) == SubstringFrom(trimmedLine, 2)

OrderedMatch(trimmedLine) ==
  LET digits == LeadingIn(trimmedLine, Digits)
  IN  digits >= 1 /\ At(trimmedLine, digits) = "." /\ IsSpace(At(trimmedLine, digits + 1))

OrderedText(trimmedLine) == SubstringFrom(trimmedLine, LeadingIn(trimmedLine, Digits) + 2)

BulletRunEnd_Mut(ls, j) == j + 1

RECURSIVE BulletRunEnd(_, _)
BulletRunEnd(ls, j) == IF j < Len(ls) /\ BulletMatch(Trim(ls[j + 1])) THEN BulletRunEnd(ls, j + 1) ELSE j

RECURSIVE OrderedRunEnd_Mut(_, _)
OrderedRunEnd_Mut(ls, j) ==
  IF j < Len(ls) /\ (OrderedMatch(Trim(ls[j + 1])) \/ Trim(ls[j + 1]) = <<>>) THEN OrderedRunEnd_Mut(ls, j + 1) ELSE j

RECURSIVE OrderedRunEnd(_, _)
OrderedRunEnd(ls, j) == IF j < Len(ls) /\ OrderedMatch(Trim(ls[j + 1])) THEN OrderedRunEnd(ls, j + 1) ELSE j

BulletItems(ls, from, j) == [k \in 1..(j - from) |-> ListItem(BulletText(Trim(ls[from + k])))]

OrderedItems(ls, from, j) == [k \in 1..(j - from) |-> ListItem(OrderedText(Trim(ls[from + k])))]

IndexAfterList_Mut(j) == j - 1

IndexAfterList(j) == (j - 1) + 1

ContentOrFallback_Mut(c) == c

ContentOrFallback(c) == IF Len(c) > 0 THEN c ELSE <<EmptyParagraph>>

Line == lines[i + 1]

TrimmedLine == Trim(Line)

InLoop == pc = "loop" /\ i < Len(lines)

EntryState_Mut(previous) == [previous EXCEPT !.content = <<>>, !.currentParagraph = <<>>, !.codeBlockContent = <<>>]

EntryState(previous) == [content |-> <<>>, currentParagraph |-> <<>>, inCodeBlock |-> FALSE, codeBlockContent |-> <<>>, codeBlockLanguage |-> <<>>]

Locals == [content |-> content, currentParagraph |-> currentParagraph, inCodeBlock |-> inCodeBlock, codeBlockContent |-> codeBlockContent, codeBlockLanguage |-> codeBlockLanguage]

SplitLines ==
  /\ pc = "call"
  /\ lines' = Split(text)
  /\ content' = EntryState(Locals).content
  /\ currentParagraph' = EntryState(Locals).currentParagraph
  /\ inCodeBlock' = EntryState(Locals).inCodeBlock
  /\ codeBlockContent' = EntryState(Locals).codeBlockContent
  /\ codeBlockLanguage' = EntryState(Locals).codeBlockLanguage
  /\ i' = 0
  /\ pc' = "loop"
  /\ UNCHANGED <<text, doc, scan, history, cli, wiz, imain, srv>>

SkipLine ==
  /\ InLoop
  /\ IsSkipped(Line)
  /\ i' = i + 1
  /\ UNCHANGED <<text, lines, content, currentParagraph, inCodeBlock, codeBlockContent, codeBlockLanguage, pc, doc, scan, history, cli, wiz, imain, srv>>

FenceOpen ==
  /\ InLoop
  /\ ~IsSkipped(Line)
  /\ IsFence(TrimmedLine)
  /\ ~inCodeBlock
  /\ content' = flushParagraph(content, currentParagraph)
  /\ currentParagraph' = <<>>
  /\ inCodeBlock' = TRUE
  /\ codeBlockLanguage' = Trim(SubstringFrom(TrimmedLine, 3))
  /\ i' = i + 1
  /\ UNCHANGED <<text, lines, codeBlockContent, pc, doc, scan, history, cli, wiz, imain, srv>>

FenceClose ==
  /\ InLoop
  /\ ~IsSkipped(Line)
  /\ IsFence(TrimmedLine)
  /\ inCodeBlock
  /\ content' = flushCodeBlock(content, codeBlockContent, codeBlockLanguage)
  /\ codeBlockLanguage' = FlushedLanguage(codeBlockContent, codeBlockLanguage)
  /\ codeBlockContent' = <<>>
  /\ inCodeBlock' = FALSE
  /\ i' = i + 1
  /\ UNCHANGED <<text, lines, currentParagraph, pc, doc, scan, history, cli, wiz, imain, srv>>

CodeLine ==
  /\ InLoop
  /\ ~IsSkipped(Line)
  /\ ~IsFence(TrimmedLine)
  /\ inCodeBlock
  /\ codeBlockContent' = Append(codeBlockContent, Line)
  /\ i' = i + 1
  /\ UNCHANGED <<text, lines, content, currentParagraph, inCodeBlock, codeBlockLanguage, pc, doc, scan, history, cli, wiz, imain, srv>>

Outside == InLoop /\ ~IsSkipped(Line) /\ ~IsFence(TrimmedLine) /\ ~inCodeBlock

HeadingLine ==
  /\ Outside
  /\ IsHeading(TrimmedLine)
  /\ content' = Append(flushParagraph(content, currentParagraph), Heading(HeadingLevel(TrimmedLine), HeaderText(TrimmedLine)))
  /\ currentParagraph' = <<>>
  /\ i' = i + 1
  /\ UNCHANGED <<text, lines, inCodeBlock, codeBlockContent, codeBlockLanguage, pc, doc, scan, history, cli, wiz, imain, srv>>

BulletList ==
  /\ Outside
  /\ ~IsHeading(TrimmedLine)
  /\ BulletMatch(TrimmedLine)
  /\ LET j == BulletRunEnd(lines, i)
     IN  /\ content' = Append(flushParagraph(content, currentParagraph), ListNode("bulletList", BulletItems(lines, i, j)))
         /\ i' = IndexAfterList(j)
  /\ currentParagraph' = <<>>
  /\ UNCHANGED <<text, lines, inCodeBlock, codeBlockContent, codeBlockLanguage, pc, doc, scan, history, cli, wiz, imain, srv>>

OrderedList ==
  /\ Outside
  /\ ~IsHeading(TrimmedLine)
  /\ ~BulletMatch(TrimmedLine)
  /\ OrderedMatch(TrimmedLine)
  /\ LET j == OrderedRunEnd(lines, i)
     IN  /\ content' = Append(flushParagraph(content, currentParagraph), ListNode("orderedList", OrderedItems(lines, i, j)))
         /\ i' = IndexAfterList(j)
  /\ currentParagraph' = <<>>
  /\ UNCHANGED <<text, lines, inCodeBlock, codeBlockContent, codeBlockLanguage, pc, doc, scan, history, cli, wiz, imain, srv>>

Ordinary == Outside /\ ~IsHeading(TrimmedLine) /\ ~BulletMatch(TrimmedLine) /\ ~OrderedMatch(TrimmedLine)

BlankLine ==
  /\ Ordinary
  /\ TrimmedLine = <<>>
  /\ content' = flushParagraph(content, currentParagraph)
  /\ currentParagraph' = <<>>
  /\ i' = i + 1
  /\ UNCHANGED <<text, lines, inCodeBlock, codeBlockContent, codeBlockLanguage, pc, doc, scan, history, cli, wiz, imain, srv>>

TextLine ==
  /\ Ordinary
  /\ TrimmedLine # <<>>
  /\ currentParagraph' = Append(currentParagraph, Line)
  /\ i' = i + 1
  /\ UNCHANGED <<text, lines, content, inCodeBlock, codeBlockContent, codeBlockLanguage, pc, doc, scan, history, cli, wiz, imain, srv>>

Return ==
  /\ pc = "loop"
  /\ i >= Len(lines)
  /\ LET flushed == flushCodeBlock(flushParagraph(content, currentParagraph), codeBlockContent, codeBlockLanguage)
     IN  /\ content' = flushed
         /\ doc' = [type |-> "doc", version |-> 1, content |-> ContentOrFallback(flushed)]
  /\ currentParagraph' = <<>>
  /\ codeBlockLanguage' = FlushedLanguage(codeBlockContent, codeBlockLanguage)
  /\ codeBlockContent' = <<>>
  /\ pc' = "done"
  /\ UNCHANGED <<text, lines, i, inCodeBlock, scan, history, cli, wiz, imain, srv>>

CallTexts == {
  <<"a">>,
  Fence \o <<"j", NL, "a">>,
  Fence \o <<NL, "a", NL>> \o Fence \o <<NL, NL, " ">>,
  <<"#", " ", "a", NL, "-", " ", "a", NL, "1", ".", " ", "a">> }

\* textToADF has returned and is called again: the locals of the call that returned are left behind
CallAgain ==
  /\ pc = "done"
  /\ Len(history) < MaxCalls - 1
  /\ history' = Append(history, [text |-> text, doc |-> doc])
  /\ text' \in CallTexts
  /\ pc' = "call"
  /\ UNCHANGED <<lines, i, content, currentParagraph, inCodeBlock, codeBlockContent, codeBlockLanguage, doc, scan, cli, wiz, imain, srv>>

(***************************************************************************)
(* parseInlineFormatting called on its own, one loop iteration per step.   *)
(***************************************************************************)
Scanning == scan.pc = "loop" /\ scan.i < Len(scan.text)

InlineCode == Scanning /\ TakesCode(scan) /\ scan' = CodeStep(scan) /\ UNCHANGED blockVars

Bold == Scanning /\ TakesBold(scan) /\ scan' = BoldStep(scan) /\ UNCHANGED blockVars

Italic == Scanning /\ TakesItalic(scan) /\ scan' = ItalicStep(scan) /\ UNCHANGED blockVars

RegularChar == Scanning /\ TakesChar(scan) /\ scan' = CharStep(scan) /\ UNCHANGED blockVars

InlineReturn == scan.pc = "loop" /\ scan.i >= Len(scan.text) /\ scan' = ScanReturn(scan) /\ UNCHANGED blockVars

(***************************************************************************)
(* The command-line run of src/index.ts: main.  One step per await of the  *)
(* source; the outcome of the agent, of Jira and of the prompt is drawn    *)
(* when the awaited call returns.  cli.calls is the sequence of the writes *)
(* sent to Jira, in the order of the calls.                                *)
(***************************************************************************)
NoKey == ""

EpicKeys == {NoKey, "EPIC-1"}

StoryKeys == {"PROJ-1", "PROJ-2"}

\* the subtasks array of the agent's answer; an element may be null
SubtaskLists == UNION {[1..n -> {"task", Undefined}] : n \in 0..MaxSubtasks}

JiraCall(op, story, epic, ok) == [op |-> op, story |-> story, epic |-> epic, ok |-> ok]

CliIdle ==
  [pc |-> "idle", epicKey |-> NoKey, decompose |-> FALSE, confirm |-> FALSE, storyKey |-> NoKey,
   subtasks |-> <<>>, i |-> 0, createdSubtasks |-> 0, skippedSubtasks |-> 0, warnings |-> 0,
   calls |-> <<>>]

\* parseArgs has returned: the flags of the run
CliStart(epicKey, decompose, confirm) ==
  [CliIdle EXCEPT !.pc = "runClaude", !.epicKey = epicKey, !.decompose = decompose, !.confirm = confirm]

\* if (epicKey)
ShouldLink(c) == c.epicKey # NoKey

AfterLink_Mut(c) == "decompose"

\* if (!decompose) { ... return; }
AfterLink(c) == IF c.decompose THEN "decompose" ELSE "done"

AfterStory(c) == IF ShouldLink(c) THEN "linkToEpic" ELSE AfterLink(c)

\* the parentKey argument of createSubtask
SubtaskParent(c) == c.storyKey

CurrentSubtask(c) == c.subtasks[c.i + 1]

InSubtaskLoop(c) == c.pc = "loop" /\ c.i < Len(c.subtasks)

\* runClaude for the story: a non-zero exit code or an answer without summary and description ends the run
StoryAgent ==
  /\ cli.pc = "runClaude"
  /\ \E ok \in BOOLEAN : cli' = [cli EXCEPT !.pc = IF ok THEN "createStory" ELSE "exit"]
  /\ UNCHANGED <<converterVars, wiz, imain, srv>>

\* createStory: a failure is thrown to the catch of main, which ends the run
CreateStory ==
  /\ cli.pc = "createStory"
  /\ \/ \E key \in StoryKeys :
          cli' = [cli EXCEPT !.storyKey = key,
                             !.calls = Append(@, JiraCall("createStory", key, NoKey, TRUE)),
                             !.pc = AfterStory(cli)]
     \/ cli' = [cli EXCEPT !.calls = Append(@, JiraCall("createStory", NoKey, NoKey, FALSE)),
                           !.pc = "exit"]
  /\ UNCHANGED <<converterVars, wiz, imain, srv>>

\* linkToEpic: a failure is a warning, the run goes on
LinkToEpic_Mut ==
  /\ cli.pc = "linkToEpic"
  /\ \E ok \in BOOLEAN :
       cli' = [cli EXCEPT !.calls = Append(@, JiraCall("linkToEpic", cli.storyKey, cli.epicKey, ok)),
                          !.pc = IF ok THEN AfterLink(cli) ELSE "exit"]
  /\ UNCHANGED <<converterVars, wiz, imain, srv>>

LinkToEpic ==
  /\ cli.pc = "linkToEpic"
  /\ \E ok \in BOOLEAN :
       cli' = [cli EXCEPT !.calls = Append(@, JiraCall("linkToEpic", cli.storyKey, cli.epicKey, ok)),
                          !.warnings = IF ok THEN @ ELSE @ + 1,
                          !.pc = AfterLink(cli)]
  /\ UNCHANGED <<converterVars, wiz, imain, srv>>

\* runClaude for the decomposition: a failure ends the run
DecomposeAgent ==
  /\ cli.pc = "decompose"
  /\ \/ cli' = [cli EXCEPT !.pc = "exit"]
     \/ \E s \in SubtaskLists : cli' = [cli EXCEPT !.subtasks = s, !.i = 0, !.pc = "loop"]
  /\ UNCHANGED <<converterVars, wiz, imain, srv>>

\* if (!subtask) continue
SkipMissing ==
  /\ InSubtaskLoop(cli)
  /\ CurrentSubtask(cli) = Undefined
  /\ cli' = [cli EXCEPT !.i = @ + 1]
  /\ UNCHANGED <<converterVars, wiz, imain, srv>>

\* askConfirm under --confirm: a refused subtask is skipped
AskConfirm ==
  /\ InSubtaskLoop(cli)
  /\ CurrentSubtask(cli) # Undefined
  /\ cli.confirm
  /\ \E shouldCreate \in BOOLEAN :
       cli' = IF shouldCreate
                THEN [cli EXCEPT !.pc = "createSubtask"]
                ELSE [cli EXCEPT !.skippedSubtasks = @ + 1, !.i = @ + 1]
  /\ UNCHANGED <<converterVars, wiz, imain, srv>>

\* createSubtask: a failure is reported and the loop goes on
CreateSubtask ==
  /\ \/ cli.pc = "createSubtask"
     \/ InSubtaskLoop(cli) /\ CurrentSubtask(cli) # Undefined /\ ~cli.confirm
  /\ \E ok \in BOOLEAN :
       cli' = [cli EXCEPT !.calls = Append(@, JiraCall("createSubtask", SubtaskParent(cli), NoKey, ok)),
                          !.createdSubtasks = IF ok THEN @ + 1 ELSE @,
                          !.warnings = IF ok THEN @ ELSE @ + 1,
                          !.i = @ + 1,
                          !.pc = "loop"]
  /\ UNCHANGED <<converterVars, wiz, imain, srv>>

\* the loop is over: the summary is printed and main returns
CliSummary ==
  /\ cli.pc = "loop"
  /\ cli.i >= Len(cli.subtasks)
  /\ cli' = [cli EXCEPT !.pc = "done"]
  /\ UNCHANGED <<converterVars, wiz, imain, srv>>

(***************************************************************************)
(* Interactive mode: the wizard InteractiveFormWithPreview of              *)
(* src/lib/interactive.tsx (wiz: the React state and the input buffer) and *)
(* the main of src/unnamed/part_000 that drives it (imain).  main calls    *)
(* runInteractiveMode without options: no project step, the four default   *)
(* issue types.  The agent's answer is identified by its generation number *)
(* (summary and description come from one answer).  The prompt style, the  *)
(* issue type and the text of an edit request do not steer the flow and    *)
(* are not carried; Ctrl+C, which ends the program, and the scroll keys of *)
(* the preview are left out.  wiz.decision and wiz.decided record the last *)
(* key the user gave at the preview step and the preview it was given on.  *)
(***************************************************************************)
Enter == "Enter"

Escape == "Escape"

Backspace == "Backspace"

TypedChars == {"y", "n", "e", "1", " "}

Keys == TypedChars \cup {Enter, Escape, Backspace}

\* the texts the user has in the input line: empty, one of the characters, or a blank and a letter
TypedTexts == {<<>>} \cup {<<c>> : c \in TypedChars} \cup {<<" ", "y">>}

IssueTypes == <<"Story", "Task", "Bug", "Epic">>

NaN == -1

DigitValue(c) == CHOOSE d \in 0..9 : <<"0", "1", "2", "3", "4", "5", "6", "7", "8", "9">>[d + 1] = c

RECURSIVE DecimalValue(_)
DecimalValue(s) == IF s = <<>> THEN 0 ELSE 10 * DecimalValue(SubSeq(s, 1, Len(s) - 1)) + DigitValue(s[Len(s)])

\* parseInt of a text without sign or leading blanks: the leading digits, NaN without one
ParseInt(s) == IF LeadingIn(s, Digits) = 0 THEN NaN ELSE DecimalValue(SubSeq(s, 1, LeadingIn(s, Digits)))

NoPreview == 0

WizStart ==
  [step |-> "source-type", input |-> <<>>, sourceType |-> Undefined, sourceContent |-> <<>>,
   customInstructions |-> <<>>, epicKey |-> <<>>, previewData |-> NoPreview,
   decision |-> "none", decided |-> NoPreview]

WizIdle == [WizStart EXCEPT !.step = "idle"]

MainStart ==
  [pc |-> "awaitConfig", epicKey |-> <<>>, storyData |-> NoPreview, editRequest |-> NoPreview,
   generation |-> 0, calls |-> <<>>]

MainIdle == [MainStart EXCEPT !.pc = "idle"]

Handled(w, resolve) == [w |-> w, resolve |-> resolve]

SourceTypeOf(c) == IF c = "1" THEN "figma" ELSE IF c = "2" THEN "log" ELSE "prompt"

IsIssueTypeIndex(index) == index >= 0 /\ index < Len(IssueTypes)

handleEscape(w) ==
  CASE w.step = "source-input" -> [w EXCEPT !.input = <<>>, !.step = "source-type"]
    [] w.step = "custom" -> [w EXCEPT !.input = w.sourceContent, !.step = "source-input"]
    [] w.step = "epic" -> [w EXCEPT !.input = w.customInstructions, !.step = "custom"]
    [] w.step = "issue-type" -> [w EXCEPT !.input = w.epicKey, !.step = "epic"]
    [] w.step = "style" -> [w EXCEPT !.input = <<>>, !.step = "issue-type"]
    [] w.step = "confirm" -> [w EXCEPT !.input = <<>>, !.step = "style"]
    [] w.step = "edit-prompt" -> [w EXCEPT !.input = <<>>, !.step = "preview"]
    [] OTHER -> w

\* the answer y, n or empty at the confirm and preview steps
IsYes(t) == t = <<"y">> \/ t = <<>>

IsYesOrNo(t) == IsYes(t) \/ t = <<"n">>
handleEnter_Mut(w) ==
  LET trimmedInput == Trim(w.input)
  IN  CASE w.step = "source-type" /\ trimmedInput \in {<<"1">>, <<"2">>, <<"3">>} ->
             Handled([w EXCEPT !.sourceType = SourceTypeOf(trimmedInput[1]), !.step = "source-input", !.input = <<>>], "none")
        [] w.step = "source-input" /\ trimmedInput # <<>> ->
             Handled([w EXCEPT !.sourceContent = w.input, !.step = "custom", !.input = <<>>], "none")
        [] w.step = "custom" ->
             Handled([w EXCEPT !.customInstructions = trimmedInput, !.step = "epic", !.input = <<>>], "none")
        [] w.step = "epic" ->
             Handled([w EXCEPT !.epicKey = trimmedInput, !.step = "issue-type", !.input = <<>>], "none")
        [] w.step = "issue-type" /\ IsIssueTypeIndex(ParseInt(trimmedInput) - 1) ->
             Handled([w EXCEPT !.step = "style", !.input = <<>>], "none")
        [] w.step = "style" /\ trimmedInput \in {<<"1">>, <<"2">>} ->
             Handled([w EXCEPT !.step = "confirm", !.input = <<>>], "none")
        [] w.step = "confirm" /\ IsYesOrNo(trimmedInput) ->
             IF IsYes(trimmedInput)
               THEN Handled([w EXCEPT !.step = "generating"], "complete")
               ELSE Handled([w EXCEPT !.step = "source-type", !.input = <<>>], "none")
        [] w.step = "preview" /\ IsYesOrNo(trimmedInput) ->
             IF IsYes(trimmedInput)
               THEN Handled([w EXCEPT !.step = "done"], "complete")
               ELSE Handled([w EXCEPT !.step = "source-type", !.previewData = NoPreview, !.input = <<>>], "none")
        [] w.step = "edit-prompt" /\ trimmedInput # <<>> ->
             Handled([w EXCEPT !.step = "regenerating", !.input = <<>>],
                     IF w.previewData # NoPreview THEN "edit" ELSE "none")
        [] OTHER -> Handled(w, "none")

handleEnter(w) ==
  LET trimmedInput == Trim(w.input)
  IN  CASE w.step = "source-type" /\ trimmedInput \in {<<"1">>, <<"2">>, <<"3">>} ->
             Handled([w EXCEPT !.sourceType = SourceTypeOf(trimmedInput[1]), !.step = "source-input", !.input = <<>>], "none")
        [] w.step = "source-input" /\ trimmedInput # <<>> ->
             Handled([w EXCEPT !.sourceContent = trimmedInput, !.step = "custom", !.input = <<>>], "none")
        [] w.step = "custom" ->
             Handled([w EXCEPT !.customInstructions = trimmedInput, !.step = "epic", !.input = <<>>], "none")
        [] w.step = "epic" ->
             Handled([w EXCEPT !.epicKey = trimmedInput, !.step = "issue-type", !.input = <<>>], "none")
        [] w.step = "issue-type" /\ IsIssueTypeIndex(ParseInt(trimmedInput) - 1) ->
             Handled([w EXCEPT !.step = "style", !.input = <<>>], "none")
        [] w.step = "style" /\ trimmedInput \in {<<"1">>, <<"2">>} ->
             Handled([w EXCEPT !.step = "confirm", !.input = <<>>], "none")
        [] w.step = "confirm" /\ IsYesOrNo(trimmedInput) ->
             IF IsYes(trimmedInput)
               THEN Handled([w EXCEPT !.step = "generating"], "complete")
               ELSE Handled([w EXCEPT !.step = "source-type", !.input = <<>>], "none")
        [] w.step = "preview" /\ IsYesOrNo(trimmedInput) ->
             IF IsYes(trimmedInput)
               THEN Handled([w EXCEPT !.step = "done"], "complete")
               ELSE Handled([w EXCEPT !.step = "source-type", !.previewData = NoPreview, !.input = <<>>], "none")
        [] w.step = "edit-prompt" /\ trimmedInput # <<>> ->
             Handled([w EXCEPT !.step = "regenerating", !.input = <<>>],
                     IF w.previewData # NoPreview THEN "edit" ELSE "none")
        [] OTHER -> Handled(w, "none")

\* a printable character: the steps that advance on one key, else the character joins the input
handleChar(w, c) ==
  CASE w.step = "source-type" /\ c \in {"1", "2", "3"} ->
         Handled([w EXCEPT !.sourceType = SourceTypeOf(c), !.step = "source-input", !.input = <<>>], "none")
    [] w.step = "issue-type" /\ IsIssueTypeIndex(ParseInt(<<c>>) - 1) ->
         Handled([w EXCEPT !.step = "style", !.input = <<>>], "none")
    [] w.step = "style" /\ c \in {"1", "2"} ->
         Handled([w EXCEPT !.step = "confirm", !.input = <<>>], "none")
    [] w.step = "confirm" /\ c = "y" ->
         Handled([w EXCEPT !.step = "generating"], "complete")
    [] w.step = "confirm" /\ c = "n" ->
         Handled([w EXCEPT !.step = "source-type", !.input = <<>>], "none")
    [] w.step = "preview" /\ c = "e" ->
         Handled([w EXCEPT !.step = "edit-prompt", !.input = <<>>], "none")
    [] w.step = "preview" /\ c = "y" ->
         Handled([w EXCEPT !.step = "done"], "complete")
    [] w.step = "preview" /\ c = "n" ->
         Handled([w EXCEPT !.step = "source-type", !.previewData = NoPreview, !.input = <<>>], "none")
    [] OTHER -> Handled([w EXCEPT !.input = Append(@, c)], "none")

\* the key handler of the wizard; resolve names the promise of main it resolves
useInput(w, key) ==
  IF w.step = "success"
    THEN Handled([WizStart EXCEPT !.decision = w.decision, !.decided = w.decided], "restart")
  ELSE IF key = Escape THEN Handled(handleEscape(w), "none")
  ELSE IF key = Enter THEN handleEnter(w)
  ELSE IF key = Backspace THEN Handled([w EXCEPT !.input = SubSeq(@, 1, Len(@) - 1)], "none")
  ELSE handleChar(w, key)

\* what the user decided when the key was given at the preview step
Decided(w, after) ==
  IF w.step # "preview" \/ after.step = "preview" THEN after
  ELSE [after EXCEPT !.decision = CASE after.step = "done" -> "accept"
                                    [] after.step = "edit-prompt" -> "edit"
                                    [] OTHER -> "reject",
                     !.decided = w.previewData]

\* main goes on when the promise it awaits is resolved; a promise nobody awaits changes nothing
Resume(m, resolve, w) ==
  CASE resolve = "complete" /\ m.pc = "awaitConfig" -> [m EXCEPT !.pc = "generating", !.epicKey = w.epicKey]
    [] resolve = "complete" /\ m.pc = "race" -> [m EXCEPT !.pc = "createStory"]
    [] resolve = "edit" /\ m.pc = "race" -> [m EXCEPT !.pc = "editing", !.editRequest = w.previewData]
    [] resolve = "restart" /\ m.pc = "awaitRestart" -> [m EXCEPT !.pc = "restarted"]
    [] OTHER -> m

setPreviewData(w, data) == [w EXCEPT !.previewData = data, !.step = "preview"]

showSuccess(w) == [w EXCEPT !.step = "success"]

StoryCall(op, data, w, ok) == [op |-> op, data |-> data, decision |-> w.decision, decided |-> w.decided, ok |-> ok]

\* a key is pressed
KeyPress ==
  /\ wiz.step # "idle"
  /\ imain.pc \notin {"exit", "restarted"}
  /\ \E key \in Keys :
       /\ useInput(wiz, key).w.input \in TypedTexts
       /\ wiz' = Decided(wiz, useInput(wiz, key).w)
       /\ imain' = Resume(imain, useInput(wiz, key).resolve, wiz)
  /\ UNCHANGED <<converterVars, cli, srv>>

\* the agent answers the story prompt: the preview is shown and the edit loop awaits the user
GenerateStory ==
  /\ imain.pc = "generating"
  /\ \/ /\ imain' = [imain EXCEPT !.generation = @ + 1, !.storyData = imain.generation + 1, !.pc = "race"]
        /\ wiz' = setPreviewData(wiz, imain.generation + 1)
     \/ /\ imain' = [imain EXCEPT !.pc = "exit"]
        /\ UNCHANGED wiz
  /\ UNCHANGED <<converterVars, cli, srv>>

\* the agent answers an edit request; after a failure the loop awaits the user again
RegenerateStory ==
  /\ imain.pc = "editing"
  /\ \/ /\ imain.generation < MaxGenerations
        /\ imain' = [imain EXCEPT !.generation = @ + 1, !.storyData = imain.generation + 1, !.pc = "race"]
        /\ wiz' = setPreviewData(wiz, imain.generation + 1)
     \/ /\ imain' = [imain EXCEPT !.pc = "race"]
        /\ UNCHANGED wiz
  /\ UNCHANGED <<converterVars, cli, srv>>

AfterInteractiveStory(m) == IF m.epicKey # <<>> THEN "linkToEpic" ELSE "awaitRestart"

\* createStory returns; a failure goes to the catch of main, which shows it on the success screen
InteractiveCreateStory ==
  /\ imain.pc = "createStory"
  /\ \E ok \in BOOLEAN :
       /\ imain' = [imain EXCEPT !.calls = Append(@, StoryCall("createStory", imain.storyData, wiz, ok)),
                                 !.pc = IF ok THEN AfterInteractiveStory(imain) ELSE "awaitRestart"]
       /\ wiz' = IF ok /\ AfterInteractiveStory(imain) = "linkToEpic" THEN wiz ELSE showSuccess(wiz)
  /\ UNCHANGED <<converterVars, cli, srv>>

\* linkToEpic returns; the wizard never asks for a decomposition, so the run ends here
InteractiveLinkToEpic ==
  /\ imain.pc = "linkToEpic"
  /\ \E ok \in BOOLEAN :
       imain' = [imain EXCEPT !.calls = Append(@, StoryCall("linkToEpic", imain.storyData, wiz, ok)),
                              !.pc = "awaitRestart"]
  /\ wiz' = showSuccess(wiz)
  /\ UNCHANGED <<converterVars, cli, srv>>

(***************************************************************************)
(* The web server of src/server.ts for one session id: the job started by  *)
(* POST /api/process (processJob, one step per await) and the event stream *)
(* of GET /api/events/<id>.  The page sends the POST and opens the stream  *)
(* on two connections, so the server may handle them in either order.      *)
(* srv.registered says whether sseConnections holds the controller of the  *)
(* session, srv.received is what was enqueued on the stream, srv.sent the  *)
(* events processJob passed to sendSSE, delivered or not.                  *)
(***************************************************************************)
SrvIdle ==
  [pc |-> "idle", epicKey |-> FALSE, skipDecomposition |-> FALSE, remaining |-> 0,
   createdSubtasks |-> 0, registered |-> FALSE, stream |-> "none", received |-> <<>>, sent |-> <<>>]

\* the page has sent the POST and asked for the stream; neither is handled yet
SrvStart(epicKey, skipDecomposition) ==
  [SrvIdle EXCEPT !.pc = "posted", !.epicKey = epicKey, !.skipDecomposition = skipDecomposition]

TerminalEvents == {"complete", "error"}

\* an event goes to the controller of the session if there is one, else nowhere
sendSSE(s, type) ==
  IF s.registered
    THEN [s EXCEPT !.sent = Append(@, type), !.received = Append(@, type)]
    ELSE [s EXCEPT !.sent = Append(@, type)]

\* the terminal event, then the finally of processJob: close and forget the controller
Finish(s, type) ==
  [sendSSE(s, type) EXCEPT !.pc = "done",
                           !.stream = IF s.registered THEN "closed" ELSE @,
                           !.registered = FALSE]

AfterJobLink_Mut(s) ==
  IF s.skipDecomposition
    THEN [sendSSE(sendSSE(s, "complete"), "log") EXCEPT !.pc = "decompose"]
    ELSE [sendSSE(s, "log") EXCEPT !.pc = "decompose"]

\* after the epic link: if (skipDecomposition) complete, else go on to the decomposition
AfterJobLink(s) == IF s.skipDecomposition THEN Finish(s, "complete") ELSE [sendSSE(s, "log") EXCEPT !.pc = "decompose"]

\* req.json() has resolved: processJob runs up to its first await
JobStart ==
  /\ srv.pc = "posted"
  /\ srv' = [sendSSE(srv, "log") EXCEPT !.pc = "loadConfig"]
  /\ UNCHANGED <<converterVars, cli, wiz, imain>>

JobLoadConfig ==
  /\ srv.pc = "loadConfig"
  /\ \/ srv' = [sendSSE(srv, "log") EXCEPT !.pc = "loadPrompt"]
     \/ srv' = Finish(srv, "error")
  /\ UNCHANGED <<converterVars, cli, wiz, imain>>

JobLoadPrompt ==
  /\ srv.pc = "loadPrompt"
  /\ \/ srv' = [sendSSE(srv, "log") EXCEPT !.pc = "runClaude"]
     \/ srv' = Finish(srv, "error")
  /\ UNCHANGED <<converterVars, cli, wiz, imain>>

JobStoryAgent ==
  /\ srv.pc = "runClaude"
  /\ \/ srv' = [sendSSE(srv, "log") EXCEPT !.pc = "createStory"]
     \/ srv' = Finish(srv, "error")
  /\ UNCHANGED <<converterVars, cli, wiz, imain>>

JobCreateStory ==
  /\ srv.pc = "createStory"
  /\ \/ srv' = IF srv.epicKey
                 THEN [sendSSE(sendSSE(srv, "story_created"), "log") EXCEPT !.pc = "linkToEpic"]
                 ELSE AfterJobLink(sendSSE(srv, "story_created"))
     \/ srv' = Finish(srv, "error")
  /\ UNCHANGED <<converterVars, cli, wiz, imain>>

JobLinkToEpic ==
  /\ srv.pc = "linkToEpic"
  /\ \E ok \in BOOLEAN : srv' = AfterJobLink(sendSSE(srv, IF ok THEN "log" ELSE "warning"))
  /\ UNCHANGED <<converterVars, cli, wiz, imain>>

\* the decomposition prompt and agent: n subtasks, or a failure
JobDecompose ==
  /\ srv.pc = "decompose"
  /\ \/ \E n \in 0..MaxSubtasks :
          srv' = IF n = 0
                   THEN Finish(sendSSE(srv, "log"), "complete")
                   ELSE [sendSSE(srv, "log") EXCEPT !.pc = "subtasks", !.remaining = n]
     \/ srv' = Finish(srv, "error")
  /\ UNCHANGED <<converterVars, cli, wiz, imain>>

\* one createSubtask returns; after the last one the job completes
JobCreateSubtask ==
  /\ srv.pc = "subtasks"
  /\ \E ok \in BOOLEAN :
       LET sent == [sendSSE(srv, IF ok THEN "subtask_created" ELSE "warning")
                      EXCEPT !.remaining = @ - 1, !.createdSubtasks = IF ok THEN @ + 1 ELSE @]
       IN  srv' = IF sent.remaining = 0 THEN Finish(sent, "complete") ELSE sent
  /\ UNCHANGED <<converterVars, cli, wiz, imain>>

\* GET /api/events/<id>: start() registers the controller and enqueues the connected message
StreamStart ==
  /\ srv.pc # "idle"
  /\ srv.stream = "none"
  /\ srv' = [srv EXCEPT !.registered = TRUE, !.stream = "open", !.received = <<"connected">>]
  /\ UNCHANGED <<converterVars, cli, wiz, imain>>

(***************************************************************************)
(* renderInlineMarkdown, the inline matcher of the terminal renderer: the  *)
(* parts it pushes, as a sequence of [kind, text].                         *)
(***************************************************************************)
BoldDelimiters == {<<"*", "*">>, <<"_", "_">>}

ItalicDelimiters == {<<"*">>, <<"_">>}

CodeDelimiters == {<<Backtick>>}

Part(kind, t) == [kind |-> kind, text |-> t]

\* /^(.*?)D(.+?)D/ with the delimiter D at p and a body of n >= 1 characters; the dot takes no newline
RegexMatches(remaining, delimiters) ==
  {m \in [p : 0..Len(remaining), d : delimiters, n : 1..Len(remaining)] :
     /\ StartsWithAt(remaining, m.d, m.p)
     /\ StartsWithAt(remaining, m.d, m.p + Len(m.d) + m.n)
     /\ \A k \in 1..(m.p + Len(m.d) + m.n) : remaining[k] # NL}

\* both groups are lazy: the least prefix, then the least body
FirstMatch(remaining, delimiters) ==
  CHOOSE m \in RegexMatches(remaining, delimiters) :
    \A o \in RegexMatches(remaining, delimiters) : m.p < o.p \/ (m.p = o.p /\ m.n <= o.n)

MatchedParts(remaining, m, kind) ==
  (IF m.p > 0 THEN <<Part("plain", Substring(remaining, 0, m.p))>> ELSE <<>>)
    \o <<Part(kind, Substring(remaining, m.p + Len(m.d), m.p + Len(m.d) + m.n))>>

AfterMatch(remaining, m) == SubstringFrom(remaining, m.p + 2 * Len(m.d) + m.n)

RECURSIVE renderInlineMarkdown(_)
renderInlineMarkdown(remaining) ==
  IF Len(remaining) = 0 THEN <<>>
  ELSE IF RegexMatches(remaining, BoldDelimiters) # {}
    THEN MatchedParts(remaining, FirstMatch(remaining, BoldDelimiters), "bold")
           \o renderInlineMarkdown(AfterMatch(remaining, FirstMatch(remaining, BoldDelimiters)))
  ELSE IF RegexMatches(remaining, ItalicDelimiters) # {}
    THEN MatchedParts(remaining, FirstMatch(remaining, ItalicDelimiters), "italic")
           \o renderInlineMarkdown(AfterMatch(remaining, FirstMatch(remaining, ItalicDelimiters)))
  ELSE IF RegexMatches(remaining, CodeDelimiters) # {}
    THEN MatchedParts(remaining, FirstMatch(remaining, CodeDelimiters), "code")
           \o renderInlineMarkdown(AfterMatch(remaining, FirstMatch(remaining, CodeDelimiters)))
  ELSE <<Part("plain", remaining)>>

(***************************************************************************)
(* Inputs.                                                                 *)
(***************************************************************************)
LineShapes == {
  <<>>,
  <<" ">>,
  <<"a">>,
  <<" ", "b">>,
  Fence,
  Fence \o <<"j">>,
  <<"#", " ", "a">>,
  <<"-", " ", "a">>,
  <<"1", ".", " ", "a">> }

ExtraShapes == {
  <<"#", "#", "#", "#", "#", "#", "#", "a">>,
  <<" ", "#", "#", " ", " ", "a", " ">>,
  <<"#">>,
  <<"#", "b">>,
  <<"#", " ", "*", "a", "*">>,
  <<"*", " ", "b">>,
  <<"-", " ", "*", "*", "b", "*", "*">>,
  <<"1", "2", ".", " ", "b">> }

BlockTexts ==
  {Join(ls) : ls \in UNION {[1..n -> LineShapes] : n \in 1..MaxLines}}
    \cup {Join(ls) : ls \in UNION {[1..n -> LineShapes \cup ExtraShapes] : n \in 1..MaxExtraLines}}

InlineChars == {"a", "b", "*", "_", Backtick}

SampleText == <<"a", " ", "*", "*", "b", "*", "*", " ", "*", "a", "*", " ", Backtick, "b", Backtick>>

\* a code span followed by an italic span
CodeThenItalic == <<Backtick, "a", Backtick, "*", "b", "*">>

InlineTexts == UNION {[1..n -> InlineChars] : n \in 0..MaxLen} \cup {SampleText, CodeThenItalic}

\* the formatter at rest, for the runs of the command line, the wizard and the server
ConverterIdle ==
  /\ text = <<>>
  /\ lines = <<>>
  /\ i = 0
  /\ content = <<>>
  /\ currentParagraph = <<>>
  /\ inCodeBlock = FALSE
  /\ codeBlockContent = <<>>
  /\ codeBlockLanguage = <<>>
  /\ pc = "idle"
  /\ doc = NoDoc
  /\ scan = ScanIdle
  /\ history = <<>>

ToolsIdle ==
  /\ cli = CliIdle
  /\ wiz = WizIdle
  /\ imain = MainIdle
  /\ srv = SrvIdle

InitBlock ==
  /\ text \in BlockTexts
  /\ lines = <<>>
  /\ i = 0
  /\ content = <<>>
  /\ currentParagraph = <<>>
  /\ inCodeBlock = FALSE
  /\ codeBlockContent = <<>>
  /\ codeBlockLanguage = <<>>
  /\ pc = "call"
  /\ doc = NoDoc
  /\ scan = ScanIdle
  /\ history = <<>>
  /\ ToolsIdle

InitInline ==
  /\ text = <<>>
  /\ lines = <<>>
  /\ i = 0
  /\ content = <<>>
  /\ currentParagraph = <<>>
  /\ inCodeBlock = FALSE
  /\ codeBlockContent = <<>>
  /\ codeBlockLanguage = <<>>
  /\ pc = "idle"
  /\ doc = NoDoc
  /\ scan \in {ScanStart(t) : t \in InlineTexts}
  /\ history = <<>>
  /\ ToolsIdle

InitCalls ==
  /\ text \in CallTexts
  /\ lines = <<>>
  /\ i = 0
  /\ content = <<>>
  /\ currentParagraph = <<>>
  /\ inCodeBlock = FALSE
  /\ codeBlockContent = <<>>
  /\ codeBlockLanguage = <<>>
  /\ pc = "call"
  /\ doc = NoDoc
  /\ scan = ScanIdle
  /\ history = <<>>
  /\ ToolsIdle

InitCli ==
  /\ ConverterIdle
  /\ cli \in {CliStart(epicKey, decompose, confirm) : epicKey \in EpicKeys, decompose \in BOOLEAN, confirm \in BOOLEAN}
  /\ wiz = WizIdle
  /\ imain = MainIdle
  /\ srv = SrvIdle

InitWizard ==
  /\ ConverterIdle
  /\ cli = CliIdle
  /\ wiz = WizStart
  /\ imain = MainStart
  /\ srv = SrvIdle

InitServer ==
  /\ ConverterIdle
  /\ cli = CliIdle
  /\ wiz = WizIdle
  /\ imain = MainIdle
  /\ srv \in {SrvStart(epicKey, skipDecomposition) : epicKey \in BOOLEAN, skipDecomposition \in BOOLEAN}

Init == InitBlock \/ InitInline

NextBlock ==
  \/ SplitLines
  \/ SkipLine
  \/ FenceOpen
  \/ FenceClose
  \/ CodeLine
  \/ HeadingLine
  \/ BulletList
  \/ OrderedList
  \/ BlankLine
  \/ TextLine
  \/ Return

NextInline ==
  \/ InlineCode
  \/ Bold
  \/ Italic
  \/ RegularChar
  \/ InlineReturn

NextCli ==
  \/ StoryAgent
  \/ CreateStory
  \/ LinkToEpic
  \/ DecomposeAgent
  \/ SkipMissing
  \/ AskConfirm
  \/ CreateSubtask
  \/ CliSummary

NextWizard ==
  \/ KeyPress
  \/ GenerateStory
  \/ RegenerateStory
  \/ InteractiveCreateStory
  \/ InteractiveLinkToEpic

NextServer ==
  \/ JobStart
  \/ JobLoadConfig
  \/ JobLoadPrompt
  \/ JobStoryAgent
  \/ JobCreateStory
  \/ JobLinkToEpic
  \/ JobDecompose
  \/ JobCreateSubtask
  \/ StreamStart

Next == NextBlock \/ NextInline

Spec == Init /\ [][Next]_vars

SpecBlock == InitBlock /\ [][NextBlock]_vars

SpecInline == InitInline /\ [][NextInline]_vars

SpecCalls == InitCalls /\ [][NextBlock \/ CallAgain]_vars

SpecCli == InitCli /\ [][NextCli]_vars

SpecWizard == InitWizard /\ [][NextWizard]_vars

SpecServer == InitServer /\ [][NextServer]_vars

\* a run of the command line or a job of the web server
SpecJira == (InitCli \/ InitServer) /\ [][NextCli \/ NextServer]_vars

(***************************************************************************)
(* Properties of the converter.                                            *)
(***************************************************************************)
Last(q) == q[Len(q)]

AllWhitespace(t) == \A k \in 1..Len(t) : IsSpace(t[k])

Chars(t) == {t[k] : k \in 1..Len(t)}

IsFenceLine(l) == l # <<>> /\ StartsWith(Trim(l), Fence)

\* 0-based index of the last fence line before line k: inside a code block it is the opening fence
OpeningFence(k) == CHOOSE m \in 0..(k - 1) : IsFenceLine(lines[m + 1]) /\ \A n \in (m + 1)..(k - 1) : ~IsFenceLine(lines[n + 1])

NoNewMarkedRun(before, after) == \A k \in (Len(before) + 1)..Len(after) : after[k].marks = <<>>

\* C1: every returned document has type doc, version 1 and at least one block; an input that is
\* empty or holds only whitespace and newlines yields exactly one paragraph with one unmarked empty text run
C1_DocumentNeverEmpty ==
  pc = "done" =>
    /\ doc.type = "doc"
    /\ doc.version = 1
    /\ Len(doc.content) >= 1
    /\ AllWhitespace(text) => doc.content = <<[type |-> "paragraph", content |-> <<[type |-> "text", text |-> <<>>, marks |-> <<>>]>>]>>

C1_Witness ==
  /\ pc = "done"
  /\ AllWhitespace(text)
  /\ {" ", NL} \subseteq Chars(text)
  /\ Len(doc.content) = 1
  /\ doc.content[1].content[1].text = <<>>

\* C2: the line index of the block pass and the cursor of the inline pass strictly advance on every
\* loop iteration (also after a list run has been consumed) and stay bounded by the input, so both
\* loops end after at most as many iterations as the input has lines, respectively characters
C2_LoopsAdvance ==
  [][/\ (pc = "loop" /\ pc' = "loop") => (i' > i /\ i' <= Len(lines))
     /\ (scan.pc = "loop" /\ scan'.pc = "loop") => (scan'.i > scan.i /\ scan'.i <= Len(scan.text) + 1)]_vars

C2_Witness ==
  /\ pc = "loop"
  /\ i < Len(lines)
  /\ i >= 2
  /\ content # <<>>
  /\ Last(content).type = "bulletList"
  /\ Len(Last(content).content) = 2

\* C3: the literal text of the code block emitted at a closing fence equals the original lines between
\* the opening fence and that closing fence, joined by newline, empty lines included
C3_CodeVerbatim ==
  [][(InLoop /\ pc' = "loop" /\ Len(content') > Len(content) /\ Last(content').type = "codeBlock")
       => Last(content').content[1].text = Join(SubSeq(lines, OpeningFence(i) + 2, i))]_vars

C5_BlankLineFlushes ==
  (Ordinary /\ TrimmedLine # <<>> /\ i >= 1 /\ Trim(lines[i]) = <<>>) => currentParagraph = <<>>

\* C6: a backtick at the cursor with no later backtick is a literal: the cursor advances by one, the
\* backtick ends the plain-text accumulator and no marked run is emitted
C6_UnclosedBacktickLiteral ==
  [][(Scanning /\ At(scan.text, scan.i) = Backtick /\ IndexOf(scan.text, <<Backtick>>, scan.i + 1) = -1)
       => /\ scan'.i = scan.i + 1
          /\ scan'.currentText # <<>>
          /\ Last(scan'.currentText) = Backtick
          /\ NoNewMarkedRun(scan.content, scan'.content)]_vars

\* the cursor is on a ** that has no later closing **
UnclosedBoldFirst == Scanning /\ StartsWithAt(scan.text, <<"*", "*">>, scan.i) /\ IndexOf(scan.text, <<"*", "*">>, scan.i + 2) = -1

\* the cursor is on the second asterisk of such a **, having just taken the first as a literal
UnclosedBoldSecond ==
  /\ Scanning
  /\ StartsWithAt(scan.text, <<"*", "*">>, scan.i - 1)
  /\ IndexOf(scan.text, <<"*", "*">>, scan.i + 1) = -1
  /\ scan.currentText # <<>>
  /\ Last(scan.currentText) = "*"

\* C7: both asterisks of a ** without a later closing ** are taken as literal text, one cursor
\* position each: neither step emits a marked run, so neither asterisk opens a Bold or an Italic run
C7_UnclosedBoldLiteral ==
  [][(UnclosedBoldFirst \/ UnclosedBoldSecond)
       => /\ scan'.i = scan.i + 1
          /\ scan'.currentText # <<>>
          /\ Last(scan'.currentText) = "*"
          /\ NoNewMarkedRun(scan.content, scan'.content)]_vars

\* C8: a single * and equally a single _ at the cursor (not next to another one) that has a later
\* closing delimiter of the same kind, with no delimiter character in between, yields an em run
\* holding the text between the two delimiters, and the cursor moves past the closing delimiter
C8_ItalicBothDelimiters ==
  [][\A d \in {"*", "_"} :
       LET close == IndexOf(scan.text, <<d>>, scan.i + 1)
       IN  (/\ Scanning
            /\ At(scan.text, scan.i) = d
            /\ At(scan.text, scan.i + 1) # d
            /\ At(scan.text, scan.i - 1) # d
            /\ close # -1
            /\ \A k \in (scan.i + 1)..(close - 1) : At(scan.text, k) \notin {Backtick, "*", "_"})
             => /\ scan'.content # <<>>
                /\ Last(scan'.content) = [type |-> "text", text |-> Substring(scan.text, scan.i + 1, close), marks |-> <<"em">>]
                /\ scan'.i = close + 1]_vars

HasDelimiter(t) == \E k \in 1..Len(t) : t[k] \in {Backtick, "*"}

PlainLength(t, p) == LeadingIn(SubstringFrom(t, p), Chars(t) \ {Backtick, "*"})

IllFormed == [ok |-> FALSE, runs |-> <<>>]

\* the decomposition of t from position p into plain segments and spans `x`, **x**, *x* whose
\* contents have at least minBody characters and hold no backtick and no asterisk
RECURSIVE SpanParse(_, _, _)
SpanParse(t, p, minBody) ==
  IF p >= Len(t) THEN [ok |-> TRUE, runs |-> <<>>]
  ELSE LET open == IF At(t, p) = Backtick THEN <<Backtick>>
                   ELSE IF StartsWithAt(t, <<"*", "*">>, p) THEN <<"*", "*">>
                   ELSE IF At(t, p) = "*" THEN <<"*">>
                   ELSE <<>>
           mark == IF open = <<Backtick>> THEN "code" ELSE IF open = <<"*", "*">> THEN "strong" ELSE "em"
           close == IndexOf(t, open, p + Len(open))
           body == Substring(t, p + Len(open), close)
           rest == IF open = <<>> THEN SpanParse(t, p + PlainLength(t, p), minBody)
                   ELSE SpanParse(t, close + Len(open), minBody)
           run == IF open = <<>> THEN [type |-> "text", text |-> Substring(t, p, p + PlainLength(t, p)), marks |-> <<>>]
                  ELSE [type |-> "text", text |-> body, marks |-> <<mark>>]
       IN  IF open # <<>> /\ (close = -1 \/ Len(body) < minBody \/ HasDelimiter(body)) THEN IllFormed
           ELSE IF ~rest.ok THEN IllFormed
           ELSE [ok |-> TRUE, runs |-> <<run>> \o rest.runs]

\* C9 as stated: for a non-empty text made of plain segments and well-terminated spans, span contents
\* of any length, the scanner returns exactly the plain segments and the span contents in order
C9_SpansOfAnyLength ==
  (scan.pc = "done" /\ scan.text # <<>> /\ SpanParse(scan.text, 0, 0).ok)
    => scan.result = SpanParse(scan.text, 0, 0).runs

\* C9 amended: for a non-empty text made of plain segments and well-terminated spans `x`, **x**, *x*
\* whose contents are non-empty and hold no backtick and no asterisk, the scanner returns exactly
\* the plain segments and the span contents in input order, each span one run marked code, strong
\* or em, each plain segment one unmarked run, all delimiters removed
C9_WellTerminatedSpans ==
  (scan.pc = "done" /\ scan.text # <<>> /\ SpanParse(scan.text, 0, 1).ok)
    => scan.result = SpanParse(scan.text, 0, 1).runs

C9_Witness ==
  /\ scan.pc = "done"
  /\ scan.text = SampleText
  /\ SpanParse(scan.text, 0, 1).ok
  /\ [k \in 1..Len(scan.result) |-> scan.result[k].marks] = <<<<>>, <<"strong">>, <<>>, <<"em">>, <<>>, <<"code">>>>
  /\ [k \in 1..Len(scan.result) |-> scan.result[k].text] = <<<<"a", " ">>, <<"b">>, <<" ">>, <<"a">>, <<" ">>, <<"b">>>>

\* C10: parseInlineFormatting never returns an empty sequence; for the empty text it returns exactly
\* one unmarked run with empty text
C10_ScanNeverEmpty ==
  scan.pc = "done" =>
    /\ Len(scan.result) >= 1
    /\ scan.text = <<>> => scan.result = <<[type |-> "text", text |-> <<>>, marks |-> <<>>]>>

C10_Witness == scan.pc = "done" /\ scan.text = <<>> /\ Len(scan.result) = 1

\* number of leading # of a trimmed line
Hashes(t) == CHOOSE n \in 0..Len(t) : (\A k \in 1..n : t[k] = "#") /\ (n = Len(t) \/ t[n + 1] # "#")

\* the remainder of a trimmed line after its # run and the whitespace that follows the run
AfterHashes(t) ==
  LET n == Hashes(t)
      m == CHOOSE m \in n..Len(t) : (\A k \in (n + 1)..m : t[k] \in Whitespace) /\ (m = Len(t) \/ t[m + 1] \notin Whitespace)
  IN  SubSeq(t, m + 1, Len(t))

NewBlocks(type) == {k \in (Len(content) + 1)..Len(content') : content'[k].type = type}

AtHeadingLine == InLoop /\ ~inCodeBlock /\ At(Trim(Line), 0) = "#"

\* C11: a line outside a code block whose trimmed form starts with # emits exactly one heading block,
\* whose level is the number of leading # clamped to 6 (so in 1..6) and whose text is the remainder
\* of the trimmed line after the whole # run and the whitespace following it
C11_HeadingLevelAndText ==
  [][AtHeadingLine
       => /\ Cardinality(NewBlocks("heading")) = 1
          /\ SubSeq(content', 1, Len(content)) = content
          /\ Last(content').type = "heading"
          /\ Last(content').attrs.level = (IF Hashes(Trim(Line)) > 6 THEN 6 ELSE Hashes(Trim(Line)))
          /\ Last(content').attrs.level \in 1..6
          /\ Len(Last(content').content) = 1
          /\ Last(content').content[1].text = AfterHashes(Trim(Line))]_vars

C11_Witness ==
  /\ pc = "loop"
  /\ i >= 1
  /\ Hashes(Trim(lines[i])) = 7
  /\ content # <<>>
  /\ Last(content).type = "heading"
  /\ Last(content).attrs.level = 6
  /\ Last(content).content[1].text = <<"a">>

BulletLine(l) == LET t == Trim(l) IN Len(t) >= 2 /\ t[1] \in {"-", "*"} /\ t[2] \in Whitespace

DigitCount(t) == CHOOSE n \in 0..Len(t) : (\A k \in 1..n : t[k] \in Digits) /\ (n = Len(t) \/ t[n + 1] \notin Digits)

OrderedLine(l) ==
  LET t == Trim(l)
      d == DigitCount(t)
  IN  d >= 1 /\ Len(t) >= d + 2 /\ t[d + 1] = "." /\ t[d + 2] \in Whitespace

SameKind(l, bullet) == IF bullet THEN BulletLine(l) ELSE OrderedLine(l)

\* number of immediately consecutive lines of the kind, counted from the 0-based line k
RunLength(k, bullet) ==
  CHOOSE n \in 0..(Len(lines) - k) :
    /\ \A m \in 1..n : SameKind(lines[k + m], bullet)
    /\ (k + n = Len(lines) \/ ~SameKind(lines[k + n + 1], bullet))

\* a list line with its marker (the marker characters and one whitespace character) stripped
ItemText(l, bullet) ==
  LET t == Trim(l)
  IN  IF bullet THEN SubSeq(t, 3, Len(t)) ELSE SubSeq(t, DigitCount(t) + 3, Len(t))

AtListLine == InLoop /\ ~inCodeBlock /\ (BulletLine(Line) \/ OrderedLine(Line))

\* C12: the pass reaches a list line outside a code block only at the start of a maximal run of n >= 1
\* consecutive lines of its kind, and the step emits exactly one list block of that kind with
\* exactly n items in input order, each item one paragraph holding the inline scan of its line
\* with the marker stripped; the pass continues after the run
C12_ListRuns ==
  [][AtListLine
       => LET bullet == BulletLine(Line)
              n == RunLength(i, bullet)
          IN  /\ i = 0 \/ ~SameKind(lines[i], bullet)
              /\ n >= 1
              /\ Cardinality(NewBlocks("bulletList") \cup NewBlocks("orderedList")) = 1
              /\ SubSeq(content', 1, Len(content)) = content
              /\ Last(content').type = (IF bullet THEN "bulletList" ELSE "orderedList")
              /\ Len(Last(content').content) = n
              /\ \A k \in 1..n :
                   Last(content').content[k] =
                     [type |-> "listItem",
                      content |-> <<[type |-> "paragraph", content |-> parseInlineFormatting(ItemText(lines[i + k], bullet))]>>]
              /\ i' = i + n]_vars

C12_Witness ==
  /\ pc = "done"
  /\ \E k \in 1..Len(doc.content) : doc.content[k].type = "bulletList" /\ Len(doc.content[k].content) = 3
  /\ \E k \in 1..Len(doc.content) : doc.content[k].type = "orderedList" /\ Len(doc.content[k].content) = 1

\* C13: a blank line (empty or whitespace-only) between two bullet lines, or between two ordered
\* lines, interrupts the run: the three-line input is converted to two list blocks of one item each
C13_BlankLineSplitsList ==
  (/\ pc = "done"
   /\ Len(lines) = 3
   /\ Trim(lines[2]) = <<>>
   /\ \E bullet \in BOOLEAN : SameKind(lines[1], bullet) /\ SameKind(lines[3], bullet))
    => /\ Len(doc.content) = 2
       /\ \A k \in 1..2 :
            /\ doc.content[k].type = (IF BulletLine(lines[1]) THEN "bulletList" ELSE "orderedList")
            /\ Len(doc.content[k].content) = 1

C13_Witness ==
  /\ pc = "done"
  /\ lines = <<<<"-", " ", "a">>, <<>>, <<"-", " ", "a">>>>
  /\ Len(doc.content) = 2
  /\ doc.content[1].type = "bulletList"
  /\ doc.content[2].type = "bulletList"

\* C19: every run the inline scanner returns has non-empty text, whatever its mark, except the sole
\* unmarked empty run returned for the empty text
C19_NoEmptyRun ==
  scan.pc = "done" =>
    \A k \in 1..Len(scan.result) :
      \/ scan.result[k].text # <<>>
      \/ scan.text = <<>> /\ Len(scan.result) = 1 /\ scan.result[k].marks = <<>>

\* C20 as stated: the heading carries the runs the inline scanner returns for the heading text
C20_HeadingInlineScanned ==
  [][AtHeadingLine => Last(content').content = parseInlineFormatting(AfterHashes(Trim(Line)))]_vars

\* C20 amended: the text of a heading line is not passed to the inline scanner: the heading carries
\* its whole text, delimiters included, as one unmarked run, also where a paragraph with that
\* text would carry marked runs
C20_HeadingTextRaw ==
  [][AtHeadingLine
       => Last(content').content = <<[type |-> "text", text |-> AfterHashes(Trim(Line)), marks |-> <<>>]>>]_vars

C20_Witness ==
  /\ pc = "loop"
  /\ content # <<>>
  /\ Last(content).type = "heading"
  /\ Last(content).content = <<[type |-> "text", text |-> <<"*", "a", "*">>, marks |-> <<>>]>>
  /\ parseInlineFormatting(<<"*", "a", "*">>) = <<[type |-> "text", text |-> <<"a">>, marks |-> <<"em">>]>>

\* C14: two calls of textToADF with the same text return equal documents, whatever calls ran before
\* them or between them: nothing a call leaves behind reaches a later call
C14_SameTextSameDocument ==
  /\ \A a, b \in 1..Len(history) : history[a].text = history[b].text => history[a].doc = history[b].doc
  /\ pc = "done" => \A a \in 1..Len(history) : history[a].text = text => history[a].doc = doc

C14_Witness ==
  /\ pc = "done"
  /\ Len(history) = 2
  /\ history[1].text = <<"a">>
  /\ history[2].text = Fence \o <<"j", NL, "a">>
  /\ text = <<"a">>
  /\ history[1].doc = doc
  /\ inCodeBlock = FALSE

(***************************************************************************)
(* Claims on the command-line run, the wizard and the server.              *)
(***************************************************************************)

\* C15: in every command-line run the first write to Jira is createStory and nothing else is
\* written unless it succeeded; linkToEpic is called only with the epic key given on the command
\* line and for the created story; every createSubtask passes the created story's key as parent
\* and is made only when the decomposition was requested.
C15_StoryFirst ==
  \A k \in 1..Len(cli.calls) :
    /\ (cli.calls[k].op = "createStory") <=> (k = 1)
    /\ k > 1 => cli.calls[1].ok /\ cli.calls[1].story \in StoryKeys /\ cli.calls[k].story = cli.calls[1].story
    /\ cli.calls[k].op = "linkToEpic" => cli.epicKey # NoKey /\ cli.calls[k].epic = cli.epicKey
    /\ cli.calls[k].op = "createSubtask" => cli.decompose

C15_Witness ==
  /\ cli.pc = "done"
  /\ Len(cli.calls) = 4
  /\ cli.calls[1] = JiraCall("createStory", "PROJ-2", NoKey, TRUE)
  /\ cli.calls[2] = JiraCall("linkToEpic", "PROJ-2", "EPIC-1", FALSE)
  /\ cli.calls[3] = JiraCall("createSubtask", "PROJ-2", NoKey, FALSE)
  /\ cli.calls[4] = JiraCall("createSubtask", "PROJ-2", NoKey, TRUE)

\* C16: in interactive mode every createStory call is made for content the user accepted: the
\* last key given at the preview step was an accept, and it was given on the very preview
\* whose content is passed to createStory.
C16_CreatesOnlyAcceptedPreview ==
  \A k \in 1..Len(imain.calls) :
    imain.calls[k].op = "createStory" =>
      imain.calls[k].decision = "accept" /\ imain.calls[k].decided = imain.calls[k].data

\* C17: whenever the edit loop of main awaits the user, the wizard is at a step that some key
\* leaves; in particular a failed edit request does not leave it in the regenerating step.
C17_FailedEditAllowsRetry ==
  imain.pc = "race" => \E key \in Keys : useInput(wiz, key).w.step # wiz.step

\* C18: once the job has ended and the event stream of its session has been opened, the stream
\* has received the terminal event of the job as its last event and has been closed.
C18_TerminalEventDelivered ==
  (srv.pc = "done" /\ srv.stream # "none") =>
    /\ srv.stream = "closed"
    /\ srv.received # <<>>
    /\ Last(srv.received) \in TerminalEvents

(***************************************************************************)
(* Claims C21 to C30.                                                      *)
(***************************************************************************)
AtClosingFence == InLoop /\ inCodeBlock /\ IsFenceLine(Line)

\* C21: a fence line met in code-block mode adds exactly one block, a code block, and leaves the
\* code buffer and the language empty
C21_ClosingFenceEmitsOneBlock ==
  [][AtClosingFence
       => /\ Len(content') = Len(content) + 1
          /\ Last(content').type = "codeBlock"
          /\ codeBlockContent' = <<>>
          /\ codeBlockLanguage' = <<>>]_vars

KindOfRun(run) ==
  IF run.marks = <<>> THEN "plain"
  ELSE IF run.marks[1] = "strong" THEN "bold"
  ELSE IF run.marks[1] = "em" THEN "italic"
  ELSE "code"

RunSpans(runs) == [k \in 1..Len(runs) |-> Part(KindOfRun(runs[k]), runs[k].text)]

\* adjacent plain spans are one span and an empty plain span is none
RECURSIVE MergePlain(_)
MergePlain(spans) ==
  IF spans = <<>> THEN <<>>
  ELSE IF spans[1].kind = "plain" /\ spans[1].text = <<>> THEN MergePlain(Tail(spans))
  ELSE IF Len(spans) >= 2 /\ spans[1].kind = "plain" /\ spans[2].kind = "plain"
    THEN MergePlain(<<Part("plain", spans[1].text \o spans[2].text)>> \o SubSeq(spans, 3, Len(spans)))
  ELSE <<spans[1]>> \o MergePlain(Tail(spans))

\* C22: for a single-line text the renderer's matcher and the scanner give the same sequence of
\* plain, bold, italic and code spans with the same contents; stated for the texts on which the
\* scanner is known to be right, those made of plain text without underscore and of code, bold and
\* italic spans that are closed and not empty
C22_RendererMatchesScanner ==
  (scan.pc = "done" /\ "_" \notin Chars(scan.text) /\ SpanParse(scan.text, 0, 1).ok)
    => MergePlain(RunSpans(scan.result)) = MergePlain(renderInlineMarkdown(scan.text))

\* the delimiter that opens a closed span at position p of t, in the order code, bold, italic
SpanDelimiter(t, p) ==
  IF At(t, p) = Backtick /\ At(t, p + 1) # Backtick /\ IndexOf(t, <<Backtick>>, p + 1) # -1 THEN <<Backtick>>
  ELSE IF StartsWithAt(t, <<"*", "*">>, p) /\ IndexOf(t, <<"*", "*">>, p + 2) # -1 THEN <<"*", "*">>
  ELSE IF At(t, p) = "*" /\ At(t, p + 1) # "*" /\ IndexOf(t, <<"*">>, p + 1) # -1 THEN <<"*">>
  ELSE <<>>

MarkOfDelimiter(d) == IF d = <<Backtick>> THEN "code" ELSE IF d = <<"*", "*">> THEN "strong" ELSE "em"

\* C23: when a closed span opens at the cursor (tested in the order code, bold, italic), the step
\* ends the plain text before it and emits the span as one run with exactly one mark, the mark of
\* the first delimiter that matched; the run's text is the raw text between the delimiters and the
\* cursor moves past the closing delimiter, so the content is not scanned again; no run has two marks
C23_MatchedSpanOneRun ==
  [][(Scanning /\ SpanDelimiter(scan.text, scan.i) # <<>>)
       => LET d == SpanDelimiter(scan.text, scan.i)
              close == IndexOf(scan.text, d, scan.i + Len(d))
          IN  /\ Len(scan'.content) = Len(scan.content) + (IF scan.currentText # <<>> THEN 2 ELSE 1)
              /\ SubSeq(scan'.content, 1, Len(scan.content)) = scan.content
              /\ Last(scan'.content).marks = <<MarkOfDelimiter(d)>>
              /\ Last(scan'.content).text = Substring(scan.text, scan.i + Len(d), close)
              /\ scan'.i = close + Len(d)
              /\ scan'.currentText = <<>>
              /\ \A k \in 1..Len(scan'.content) : Len(scan'.content[k].marks) <= 1]_vars

C23_Witness ==
  /\ scan.pc = "done"
  /\ scan.text = <<Backtick, "*", "a", "*", Backtick>>
  /\ scan.result = <<MarkedNode(<<"*", "a", "*">>, "code")>>

\* a line met in code-block mode that is not a fence line and is followed by another line of the block
InsideCodeBlock ==
  /\ InLoop
  /\ inCodeBlock
  /\ ~IsFenceLine(Line)
  /\ \E k \in (i + 2)..Len(lines) : lines[k] # <<>>

\* C24: in code-block mode a line that is not a fence line is appended to the code buffer as it is,
\* and the step emits no block, leaves the paragraph buffer alone and stays in code-block mode
C24_CodeLineOnlyBuffered ==
  [][InsideCodeBlock
       => /\ codeBlockContent' = Append(codeBlockContent, Line)
          /\ content' = content
          /\ currentParagraph' = currentParagraph
          /\ inCodeBlock']_vars

\* the line of index k (from 1) lies between an opening fence and its closing fence
InsideFences(k) == Cardinality({m \in 1..(k - 1) : IsFenceLine(lines[m])}) % 2 = 1

\* an ordinary line: not blank, outside code blocks, neither a fence, a heading nor a list line
OrdinaryLine(k) ==
  /\ ~AllWhitespace(lines[k])
  /\ ~InsideFences(k)
  /\ ~IsFenceLine(lines[k])
  /\ At(Trim(lines[k]), 0) # "#"
  /\ ~BulletLine(lines[k])
  /\ ~OrderedLine(lines[k])

\* the first lines of the maximal groups of consecutive ordinary lines
GroupStarts == {k \in 1..Len(lines) : OrdinaryLine(k) /\ (k = 1 \/ ~OrdinaryLine(k - 1))}

GroupEnd(k) == CHOOSE e \in k..Len(lines) : (\A m \in k..e : OrdinaryLine(m)) /\ (e = Len(lines) \/ ~OrdinaryLine(e + 1))

\* the paragraph of a group of lines: the lines joined by newline and trimmed as a whole
GroupParagraphOf(group) == Paragraph(parseInlineFormatting(Trim(Join(group))))

GroupParagraph(k) == GroupParagraphOf(SubSeq(lines, k, GroupEnd(k)))

RECURSIVE GroupParagraphs(_)
GroupParagraphs(k) ==
  IF k > Len(lines) THEN <<>>
  ELSE IF k \in GroupStarts THEN <<GroupParagraph(k)>> \o GroupParagraphs(GroupEnd(k) + 1)
  ELSE GroupParagraphs(k + 1)

IsParagraph(block) == block.type = "paragraph"

\* C25: flushing an empty paragraph buffer emits nothing: the pass emits no more paragraphs than
\* the text has maximal groups of consecutive ordinary lines, each group yields one paragraph made
\* of its lines joined by newline and trimmed as a whole, and the document holds the fallback empty
\* paragraph only when the pass emitted no block at all
C25_ParagraphPerGroup ==
  pc = "done"
    => /\ Len(SelectSeq(content, IsParagraph)) <= Cardinality(GroupStarts)
       /\ SelectSeq(content, IsParagraph) = GroupParagraphs(1)
       /\ doc.content # content => (content = <<>> /\ doc.content = <<EmptyParagraph>>)

\* the blocks a step adds at the end of content
Emitted == SubSeq(content', Len(content) + 1, Len(content'))

\* the paragraph block of the lines buffered before the current line, if they make one
PendingParagraph == IF Trim(Join(currentParagraph)) # <<>> THEN <<GroupParagraphOf(currentParagraph)>> ELSE <<>>

\* a block starts on the current line: a heading of this line, or a list whose first item is this line
StartsOnLine(block) ==
  /\ InLoop
  /\ \/ block.type = "heading" /\ At(Trim(Line), 0) = "#" /\ block.content[1].text = AfterHashes(Trim(Line))
     \/ /\ block.type = "bulletList"
        /\ BulletLine(Line)
        /\ block.content[1].content[1].content = parseInlineFormatting(ItemText(Line, TRUE))
     \/ /\ block.type = "orderedList"
        /\ OrderedLine(Line)
        /\ block.content[1].content[1].content = parseInlineFormatting(ItemText(Line, FALSE))

\* C26: the blocks of the document are in the order of their first source lines: the pass moves
\* forward through the lines and only appends to the blocks already emitted; a step that emits
\* blocks emits the pending paragraph (whose lines came earlier) first and then at most one more
\* block, which is either the pending code block, with no paragraph pending, or a heading or
\* list starting on the current line; and a paragraph and a code block are never pending together
C26_BlocksInSourceOrder ==
  [][pc = "loop"
       => /\ i' >= i
          /\ Len(content') >= Len(content)
          /\ SubSeq(content', 1, Len(content)) = content
          /\ ~(currentParagraph' # <<>> /\ (inCodeBlock' \/ codeBlockContent' # <<>>))
          /\ Emitted # <<>>
               => /\ SubSeq(Emitted, 1, Len(PendingParagraph)) = PendingParagraph
                  /\ Len(Emitted) <= Len(PendingParagraph) + 1
                  /\ currentParagraph' = <<>>
                  /\ Len(Emitted) = Len(PendingParagraph) + 1
                       => IF Last(Emitted).type = "codeBlock"
                            THEN /\ currentParagraph = <<>>
                                 /\ Last(Emitted).content[1].text = Join(codeBlockContent)
                                 /\ codeBlockContent' = <<>>
                            ELSE StartsOnLine(Last(Emitted))]_vars

\* two paragraphs, each flushed ahead of the heading or list whose line follows its lines
C26_Witness ==
  /\ pc = "done"
  /\ Len(doc.content) = 4
  /\ doc.content[1].type = "paragraph"
  /\ doc.content[2].type = "heading"
  /\ doc.content[3].type = "paragraph"
  /\ doc.content[4].type \in {"bulletList", "orderedList"}

TerminalCount(events) == Cardinality({k \in 1..Len(events) : events[k] \in TerminalEvents})

\* C27: a web job passes exactly one terminal event (complete or error) to sendSSE, whatever step
\* fails: none while it runs, one when processJob returns, and no event of any kind after it; the
\* stream receives at most one terminal event and nothing after it; and when processJob returns,
\* the controller registered for the session has been closed and is no longer in the map
C27_OneTerminalEvent ==
  [][/\ srv'.pc # "done" => TerminalCount(srv'.sent) = 0
     /\ srv'.pc = "done" => (TerminalCount(srv'.sent) = 1 /\ Last(srv'.sent) \in TerminalEvents)
     /\ TerminalCount(srv.sent) = 1 => srv'.sent = srv.sent
     /\ TerminalCount(srv'.received) <= 1
     /\ TerminalCount(srv'.received) = 1 => Last(srv'.received) \in TerminalEvents
     /\ (srv.pc # "done" /\ srv'.pc = "done")
          => /\ ~srv'.registered
             /\ srv.registered => srv'.stream = "closed"]_vars

\* the decomposition fails after the story was created and linked: one error event, stream closed
C27_Witness ==
  /\ srv.pc = "done"
  /\ srv.stream = "closed"
  /\ TerminalCount(srv.received) = 1
  /\ Last(srv.sent) = "error"
  /\ \E k \in 1..Len(srv.sent) : srv.sent[k] = "story_created"
  /\ \E k \in 1..Len(srv.sent) : srv.sent[k] = "warning"

SucceededCalls(calls, op) == Cardinality({k \in 1..Len(calls) : calls[k].op = op /\ calls[k].ok})

FailedCalls(calls) == Cardinality({k \in 1..Len(calls) : calls[k].op # "createStory" /\ ~calls[k].ok})

CountOf(events, type) == Cardinality({k \in 1..Len(events) : events[k] = type})

\* the events a step of the job passes to sendSSE
NewEvents == SubSeq(srv'.sent, Len(srv.sent) + 1, Len(srv'.sent))

\* the command line is at a Jira call that follows the creation of the story
AtCliJiraCall == cli.pc \in {"linkToEpic", "createSubtask"} \/ (InSubtaskLoop(cli) /\ CurrentSubtask(cli) # Undefined /\ ~cli.confirm)

\* the job is at a Jira call that follows the creation of the story, and the step is the call's return
AtJobJiraCall == srv.pc \in {"linkToEpic", "subtasks"} /\ srv'.sent # srv.sent

\* C28: once the story exists a failing Jira call does not end the run. Command line: after
\* linkToEpic, failed or not, the run goes on to the decomposition (or ends normally without one);
\* after createSubtask, failed or not, the loop goes on with the next subtask; each failure is reported
\* once; the count printed as created is the number of createSubtask calls that succeeded; and when
\* the loop ends every subtask was attempted, refused by the user or missing. Web job: the return
\* of linkToEpic or createSubtask never sends an error event, a failure sends one warning, the loop
\* goes on until no subtask remains, and the count of the complete message is the number of
\* subtask_created events
C28_JiraFailuresNotFatal ==
  [][/\ AtCliJiraCall
          => /\ cli'.pc # "exit"
             /\ Len(cli'.calls) = Len(cli.calls) + 1
             /\ cli'.warnings = cli.warnings + (IF Last(cli'.calls).ok THEN 0 ELSE 1)
             /\ cli.pc = "linkToEpic" => cli'.pc = (IF cli.decompose THEN "decompose" ELSE "done")
             /\ cli.pc # "linkToEpic" => (cli'.pc = "loop" /\ cli'.i = cli.i + 1)
     /\ cli'.createdSubtasks = SucceededCalls(cli'.calls, "createSubtask")
     /\ cli'.warnings = FailedCalls(cli'.calls)
     /\ (cli.pc = "loop" /\ cli'.pc = "done")
          => Len(cli.subtasks) = CountOf([k \in 1..Len(cli.calls) |-> cli.calls[k].op], "createSubtask")
                                   + cli.skippedSubtasks + CountOf(cli.subtasks, Undefined)
     /\ AtJobJiraCall
          => /\ CountOf(NewEvents, "error") = 0
             /\ CountOf(NewEvents, "warning") + CountOf(NewEvents, "subtask_created") + CountOf(NewEvents, "log") >= 1
             /\ CountOf(NewEvents, "warning") <= 1
             /\ srv.pc = "linkToEpic"
                  => IF srv.skipDecomposition
                       THEN srv'.pc = "done" /\ Last(srv'.sent) = "complete"
                       ELSE srv'.pc = "decompose"
             /\ srv.pc = "subtasks"
                  => /\ srv'.remaining = srv.remaining - 1
                     /\ CountOf(NewEvents, "warning") + CountOf(NewEvents, "subtask_created") = 1
                     /\ IF srv'.remaining > 0
                          THEN srv'.pc = "subtasks"
                          ELSE srv'.pc = "done" /\ Last(srv'.sent) = "complete"
     /\ srv'.createdSubtasks = CountOf(srv'.sent, "subtask_created")]_vars

\* a run of the command line in which linkToEpic and the first createSubtask failed and the
\* second createSubtask succeeded: the summary reports one created subtask
C28_Witness ==
  /\ cli.pc = "done"
  /\ cli.createdSubtasks = 1
  /\ cli.warnings = 2
  /\ Len(cli.calls) = 4
  /\ ~cli.calls[2].ok
  /\ ~cli.calls[3].ok
  /\ cli.calls[4].ok

\* a web job in which linkToEpic and one createSubtask failed and one createSubtask succeeded
C28_JobWitness ==
  /\ srv.pc = "done"
  /\ Last(srv.sent) = "complete"
  /\ srv.createdSubtasks = 1
  /\ CountOf(srv.sent, "warning") = 2

\* sourceType is set and sourceContent is a non-empty trimmed text
SourceGiven(w) == w.sourceType # Undefined /\ w.sourceContent # <<>> /\ Trim(w.sourceContent) = w.sourceContent

\* C29: after any sequence of key presses, the wizard is at the confirm step only with sourceType
\* set and sourceContent a non-empty trimmed text, and the key press that delivers the
\* configuration to main (main leaves its wait for the configuration) delivers such a state
C29_ConfirmOnlyWithSource ==
  [][/\ wiz'.step = "confirm" => SourceGiven(wiz')
     /\ (imain.pc = "awaitConfig" /\ imain'.pc # "awaitConfig")
          => (wiz.step = "confirm" /\ SourceGiven(wiz) /\ imain'.pc = "generating")]_vars

\* the configuration has been delivered to main: a figma source, a source text, custom instructions
C29_Witness ==
  /\ imain.pc = "generating"
  /\ wiz.step = "generating"
  /\ wiz.sourceType = "figma"
  /\ wiz.sourceContent = <<"y">>
  /\ wiz.customInstructions = <<"e">>

\* the wizard state after the same key was pressed n times
RECURSIVE Pressed(_, _, _)
Pressed(w, key, n) == IF n = 0 THEN w ELSE Pressed(useInput(w, key).w, key, n - 1)

\* the numbers of Escape presses that lead from the step back over text-entry steps only
BackSteps(w) == IF w.step = "epic" THEN 1..2 ELSE IF w.step = "issue-type" THEN 1..3 ELSE {}

SameEntries(v, w) ==
  /\ v.sourceContent = w.sourceContent
  /\ v.customInstructions = w.customInstructions
  /\ v.epicKey = w.epicKey

\* C30: Escape restores the previously entered value: from the epic or the issue-type step, going
\* back n text-entry steps with Escape and then pressing Enter n times, without typing, leads to
\* the same step with sourceContent, customInstructions and epicKey as they were
C30_EscapeRestoresEntries ==
  \A n \in BackSteps(wiz) :
    /\ Pressed(Pressed(wiz, Escape, n), Enter, n).step = wiz.step
    /\ SameEntries(Pressed(Pressed(wiz, Escape, n), Enter, n), wiz)
====
